---- MODULE Spec2Model ----
(***************************************************************************)
(* Model of src/test-files/cpp-test.cpp: the User value object, the        *)
(* UserCollection<User> store guarded by a std::shared_mutex, and the      *)
(* UserManager that creates users on std::async worker tasks and answers   *)
(* queries on the calling threads.                                         *)
(*                                                                         *)
(* A worker task is the lambda of createUserAsync (lines 228-239); a       *)
(* reader is a thread calling the synchronous queries of UserManager or    *)
(* the locked read operations of its store.  Every acquisition of a lock   *)
(* is a step of its own, so that the states in which a lock is held, or    *)
(* waited for, are states of the model.                                    *)
(*                                                                         *)
(* created_at_ (a wall-clock time point) is left out of the record: no     *)
(* operation of the program reads it.                                      *)
(***************************************************************************)
EXTENDS Integers, Sequences, FiniteSets

\* ------------------------------------------------------------------ bounds
NumTasks == 2      \* createUserAsync calls main issues (at most 5: userData)
NumReaders == 2    \* threads that call the read operations

Tasks == 1..NumTasks
Readers == 1..NumReaders

\* --------------------------------------------------------------- constants
UserRole == {"ADMIN", "USER", "GUEST"}
UserStatus == {"ACTIVE", "INACTIVE", "SUSPENDED"}
AVG_DIVISOR == 30

\* main's userData: call t of main's loop passes row t.
userData ==
  << [name |-> "Alice Johnson", email |-> "alice@example.com", role |-> "ADMIN"],
     [name |-> "Bob Smith", email |-> "bob@example.com", role |-> "USER"],
     [name |-> "Carol Brown", email |-> "carol@example.com", role |-> "USER"],
     [name |-> "David Wilson", email |-> "david@example.com", role |-> "GUEST"],
     [name |-> "Eve Davis", email |-> "eve@example.com", role |-> "USER"] >>

\* The thread of main, the caller of UserManager's queries.
MainThread == 1

\* Ids a caller may ask findUserById for: every id that can be issued, and one
\* that never is.
IdArgs == 1..(NumTasks + 1)

\* ------------------------------------------------------------------- state
VARIABLES
  users_,       \* UserCollection::users_ of UserManager::users_
  mutex_,       \* UserCollection::mutex_: [unique, shared], the sets of holders
  next_id_,     \* UserManager::next_id_
  task,         \* per call: the worker's position, captures and locals
  user_mutex_,  \* per call: holders of User::mutex_ of the worker's *user
  future,       \* per call: the shared state of the returned std::future
  reader        \* per reader thread: position, call and locals

vars == <<users_, mutex_, next_id_, task, user_mutex_, future, reader>>

TaskThread(t) == <<"task", t>>
ReaderThread(r) == <<"reader", r>>

\* -------------------------------------------------------------------- User
\* the initializer list with name and email exchanged
User_SwappedFields(id, name, email, role) ==
  [id |-> id, name |-> email, email |-> name, role |-> role, status |-> "ACTIVE"]

\* a constructor that leaves the new record INACTIVE
User_Inactive(id, name, email, role) ==
  [id |-> id, name |-> name, email |-> email, role |-> role, status |-> "INACTIVE"]

\* User::User(id, name, email, role)
User(id, name, email, role) ==
  [id |-> id, name |-> name, email |-> email, role |-> role, status |-> "ACTIVE"]

\* User::User(const User&): every field but the mutex, which is fresh
CopyUser(other) ==
  [id |-> other.id, name |-> other.name, email |-> other.email,
   role |-> other.role, status |-> other.status]

getId(u) == u.id
getRole(u) == u.role
isActive(u) == u.status = "ACTIVE"

\* The predicates the manager hands to the store (the three lambdas).
ByIdPred(id) == [kind |-> "id", id |-> id, role |-> "USER"]
\* a role lambda that compares with UserRole::USER whatever it captured
ByRolePred_AlwaysUser(role) == [kind |-> "role", id |-> 0, role |-> "USER"]
ByRolePred(role) == [kind |-> "role", id |-> 0, role |-> role]
ActivePred == [kind |-> "active", id |-> 0, role |-> "USER"]
NoPred == [kind |-> "none", id |-> 0, role |-> "USER"]

Pred(p, u) ==
  CASE p.kind = "id" -> getId(u) = p.id
    [] p.kind = "role" -> getRole(u) = p.role
    [] p.kind = "active" -> isActive(u)
    [] OTHER -> FALSE

\* ------------------------------------------------ UserCollection, unlocked
\* a scan that stops before the last element
find_if_ShortEnd(s, p) ==
  LET Hits == {i \in 1..(Len(s) - 1) : Pred(p, s[i])} IN
  IF Hits = {} THEN <<>>
  ELSE <<CopyUser(s[CHOOSE i \in Hits : \A j \in Hits : i <= j])>>

\* a scan from the back: the last match in place of the first
find_if_LastMatch(s, p) ==
  LET Hits == {i \in 1..Len(s) : Pred(p, s[i])} IN
  IF Hits = {} THEN <<>>
  ELSE <<CopyUser(s[CHOOSE i \in Hits : \A j \in Hits : i >= j])>>

\* std::find_if over a vector, then the copy out: <<>> is std::nullopt
RECURSIVE find_if(_, _)
find_if(s, p) ==
  IF s = <<>> THEN <<>>
  ELSE IF Pred(p, Head(s)) THEN <<CopyUser(Head(s))>>
  ELSE find_if(Tail(s), p)

\* a copy_if that inserts at the front of the result
RECURSIVE copy_if_FrontInserter(_, _)
copy_if_FrontInserter(s, p) ==
  IF s = <<>> THEN <<>>
  ELSE IF Pred(p, Head(s))
       THEN copy_if_FrontInserter(Tail(s), p) \o <<CopyUser(Head(s))>>
       ELSE copy_if_FrontInserter(Tail(s), p)

\* std::copy_if with a back_inserter
RECURSIVE copy_if(_, _)
copy_if(s, p) ==
  IF s = <<>> THEN <<>>
  ELSE IF Pred(p, Head(s)) THEN <<CopyUser(Head(s))>> \o copy_if(Tail(s), p)
  ELSE copy_if(Tail(s), p)

\* an insert at the front in place of push_back
push_front(s, u) == <<CopyUser(u)>> \o s

\* std::vector::push_back of a copy
push_back(s, u) == Append(s, CopyUser(u))

\* ------------------------------------------------------- std::shared_mutex
\* an exclusive lock that does not wait for the shared holders
CanLockUnique_IgnoresShared == mutex_.unique = {}

CanLockUnique == mutex_.unique = {} /\ mutex_.shared = {}
CanLockShared == mutex_.unique = {}
LockUnique(th) == [mutex_ EXCEPT !.unique = @ \cup {th}]
LockShared(th) == [mutex_ EXCEPT !.shared = @ \cup {th}]
Unlock(th) == [unique |-> mutex_.unique \ {th}, shared |-> mutex_.shared \ {th}]

\* -------------------------------------------------------------------- Init
NoData == [name |-> "", email |-> "", role |-> "USER"]
TaskInit == [pc |-> "none", data |-> NoData, id |-> 0, user |-> <<>>]
ReaderInit ==
  [pc |-> "idle", op |-> "none", step |-> 0, pred |-> NoPred,
   opt |-> <<>>, vec |-> <<>>, b |-> FALSE,
   active |-> <<>>, admins |-> <<>>, total |-> 0, avg |-> <<0, AVG_DIVISOR>>]

Init ==
  /\ users_ = <<>>
  /\ mutex_ = [unique |-> {}, shared |-> {}]
  /\ next_id_ = 1
  /\ task = [t \in Tasks |-> TaskInit]
  /\ user_mutex_ = [t \in Tasks |-> {}]
  /\ future = [t \in Tasks |-> [state |-> "none", value |-> <<>>]]
  /\ reader = [r \in Readers |-> ReaderInit]

\* --------------------------------------------- UserManager::createUserAsync
\* The call itself: std::async launches the lambda with name, email and role
\* captured by value and returns the future.  main's loop (line 327-329)
\* issues call t with row t of userData once calls 1..t-1 have been issued.
createUserAsync(t) ==
  /\ task[t].pc = "none"
  /\ \A u \in Tasks : u < t => task[u].pc # "none"
  /\ task' = [task EXCEPT ![t] = [@ EXCEPT !.pc = "sleep", !.data = userData[t]]]
  /\ future' = [future EXCEPT ![t] = [state |-> "pending", value |-> <<>>]]
  /\ UNCHANGED <<users_, mutex_, next_id_, user_mutex_, reader>>

\* An exception leaving the lambda destroys its locals and is stored in the
\* future's shared state.
Throw(t, where) ==
  /\ task' = [task EXCEPT ![t] = [@ EXCEPT !.pc = where, !.user = <<>>]]
  /\ future' = [future EXCEPT ![t] = [state |-> "exception", value |-> <<>>]]

\* a pre-increment in place of fetch_add: the call gets the new value
FetchAdd_PreIncrement(t) ==
  /\ task[t].pc = "sleep"
  /\ task' = [task EXCEPT ![t] = [@ EXCEPT !.pc = "make", !.id = next_id_ + 1]]
  /\ next_id_' = next_id_ + 1
  /\ UNCHANGED <<users_, mutex_, user_mutex_, future, reader>>

\* a plain load in place of fetch_add: the counter is left as it was
FetchAdd_Load(t) ==
  /\ task[t].pc = "sleep"
  /\ task' = [task EXCEPT ![t] = [@ EXCEPT !.pc = "make", !.id = next_id_]]
  /\ UNCHANGED <<users_, mutex_, next_id_, user_mutex_, future, reader>>

\* line 230-232: the sleep ends; id = next_id_.fetch_add(1)
FetchAdd(t) ==
  /\ task[t].pc = "sleep"
  /\ task' = [task EXCEPT ![t] = [@ EXCEPT !.pc = "make", !.id = next_id_]]
  /\ next_id_' = next_id_ + 1
  /\ UNCHANGED <<users_, mutex_, user_mutex_, future, reader>>

\* a record built with the counter's present value in place of the id the
\* call allocated
MakeUser_ReadsCounter(t) ==
  /\ task[t].pc = "make"
  /\ task' = [task EXCEPT ![t] = [@ EXCEPT !.pc = "add",
       !.user = <<User(next_id_, task[t].data.name, task[t].data.email,
                       task[t].data.role)>>]]
  /\ UNCHANGED <<users_, mutex_, next_id_, user_mutex_, future, reader>>

\* line 233: user = std::make_unique<User>(id, name, email, role)
MakeUser(t) ==
  /\ task[t].pc = "make"
  /\ task' = [task EXCEPT ![t] = [@ EXCEPT !.pc = "add",
       !.user = <<User(task[t].id, task[t].data.name, task[t].data.email,
                       task[t].data.role)>>]]
  /\ UNCHANGED <<users_, mutex_, next_id_, user_mutex_, future, reader>>

\* line 233: the allocation or a string copy throws std::bad_alloc
MakeUserThrows(t) ==
  /\ task[t].pc = "make"
  /\ Throw(t, "threw_make")
  /\ UNCHANGED <<users_, mutex_, next_id_, user_mutex_, reader>>

\* line 235, 160: addUser(*user) takes the store's lock exclusively
AddUserLock(t) ==
  /\ task[t].pc = "add"
  /\ CanLockUnique
  /\ mutex_' = LockUnique(TaskThread(t))
  /\ task' = [task EXCEPT ![t] = [@ EXCEPT !.pc = "push"]]
  /\ UNCHANGED <<users_, next_id_, user_mutex_, future, reader>>

\* the lock outlives addUser: it is still held when the record is printed
AddUserPush_KeepsLock(t) ==
  /\ task[t].pc = "push"
  /\ users_' = push_back(users_, task[t].user[1])
  /\ task' = [task EXCEPT ![t] = [@ EXCEPT !.pc = "print"]]
  /\ UNCHANGED <<mutex_, next_id_, user_mutex_, future, reader>>

\* line 161-162: push_back of a copy of *user, then the lock's scope ends
AddUserPush(t) ==
  /\ task[t].pc = "push"
  /\ users_' = push_back(users_, task[t].user[1])
  /\ mutex_' = Unlock(TaskThread(t))
  /\ task' = [task EXCEPT ![t] = [@ EXCEPT !.pc = "print"]]
  /\ UNCHANGED <<next_id_, user_mutex_, future, reader>>

\* a push_back without the strong guarantee: the element stays in users_
AddUserPushThrows_NoRollback(t) ==
  /\ task[t].pc = "push"
  /\ users_' = push_back(users_, task[t].user[1])
  /\ mutex_' = Unlock(TaskThread(t))
  /\ Throw(t, "threw_push")
  /\ UNCHANGED <<next_id_, user_mutex_, reader>>

\* a failed push_back that loses the elements it was moving
AddUserPushThrows_ClearsStore(t) ==
  /\ task[t].pc = "push"
  /\ users_' = <<>>
  /\ mutex_' = Unlock(TaskThread(t))
  /\ Throw(t, "threw_push")
  /\ UNCHANGED <<next_id_, user_mutex_, reader>>

\* line 161: push_back throws (reallocation or the copy); it has the strong
\* guarantee, so users_ is as before, and unwinding releases the lock
AddUserPushThrows(t) ==
  /\ task[t].pc = "push"
  /\ mutex_' = Unlock(TaskThread(t))
  /\ Throw(t, "threw_push")
  /\ UNCHANGED <<users_, next_id_, user_mutex_, reader>>

\* line 237, 140, 123: operator<< calls user->toString(), which locks *user
toStringLock(t) ==
  /\ task[t].pc = "print"
  /\ user_mutex_[t] = {}
  /\ user_mutex_' = [user_mutex_ EXCEPT ![t] = {TaskThread(t)}]
  /\ task' = [task EXCEPT ![t] = [@ EXCEPT !.pc = "str"]]
  /\ UNCHANGED <<users_, mutex_, next_id_, future, reader>>

\* line 124-128: the string is built and the lock_guard's scope ends
toString(t) ==
  /\ task[t].pc = "str"
  /\ user_mutex_' = [user_mutex_ EXCEPT ![t] = @ \ {TaskThread(t)}]
  /\ task' = [task EXCEPT ![t] = [@ EXCEPT !.pc = "return"]]
  /\ UNCHANGED <<users_, mutex_, next_id_, future, reader>>

\* line 124-128: a string concatenation throws std::bad_alloc
toStringThrows(t) ==
  /\ task[t].pc = "str"
  /\ user_mutex_' = [user_mutex_ EXCEPT ![t] = @ \ {TaskThread(t)}]
  /\ Throw(t, "threw_print")
  /\ UNCHANGED <<users_, mutex_, next_id_, reader>>

\* a task that ends without making its future ready
Return_LeavesPending(t) ==
  /\ task[t].pc = "return"
  /\ task' = [task EXCEPT ![t] = [@ EXCEPT !.pc = "done", !.user = <<>>]]
  /\ UNCHANGED <<users_, mutex_, next_id_, user_mutex_, future, reader>>

\* line 238: return user; the future becomes ready with the unique_ptr
Return(t) ==
  /\ task[t].pc = "return"
  /\ task' = [task EXCEPT ![t] = [@ EXCEPT !.pc = "done", !.user = <<>>]]
  /\ future' = [future EXCEPT ![t] = [state |-> "value", value |-> task[t].user]]
  /\ UNCHANGED <<users_, mutex_, next_id_, user_mutex_, reader>>

TaskStep(t) ==
  \/ FetchAdd(t)
  \/ MakeUser(t)
  \/ MakeUserThrows(t)
  \/ AddUserLock(t)
  \/ AddUserPush(t)
  \/ AddUserPushThrows(t)
  \/ toStringLock(t)
  \/ toString(t)
  \/ toStringThrows(t)
  \/ Return(t)

\* ----------------------------------------------------------------- readers
\* A reader is idle, inside a store operation ("find", "filter", "size",
\* "empty": before its shared_lock is taken; "..._locked": holding it), or
\* back from its call ("ret") with the result in its locals.
Call(r, op, pc, pred) ==
  /\ reader[r].pc = "idle"
  /\ reader' = [reader EXCEPT ![r] =
       [ReaderInit EXCEPT !.pc = pc, !.op = op, !.pred = pred,
                          !.step = IF op = "getStatistics" THEN 1 ELSE 0]]
  /\ UNCHANGED <<users_, mutex_, next_id_, task, user_mutex_, future>>

\* line 243-247
findUserById(r, id) == Call(r, "findUserById", "find", ByIdPred(id))
\* line 250-254
getUsersByRole(r, role) == Call(r, "getUsersByRole", "filter", ByRolePred(role))
\* line 257-261
getActiveUsers(r) == Call(r, "getActiveUsers", "filter", ActivePred)
\* line 271-272: getStatistics begins with getActiveUsers()
getStatistics(r) == Call(r, "getStatistics", "filter", ActivePred)
\* line 203: the store's own empty(), called on the store directly
empty(r) == Call(r, "empty", "empty", NoPred)

\* line 172, 183, 199, 204: std::shared_lock lock(mutex_)
SharedLock(r) ==
  /\ reader[r].pc \in {"find", "filter", "size", "empty"}
  /\ CanLockShared
  /\ mutex_' = LockShared(ReaderThread(r))
  /\ reader' = [reader EXCEPT ![r] = [@ EXCEPT !.pc =
       CASE reader[r].pc = "find" -> "find_locked"
         [] reader[r].pc = "filter" -> "filter_locked"
         [] reader[r].pc = "size" -> "size_locked"
         [] OTHER -> "empty_locked"]]
  /\ UNCHANGED <<users_, next_id_, task, user_mutex_, future>>

\* a lookup that moves the record it found to the front of users_
findUser_MoveToFront(r) ==
  /\ reader[r].pc = "find_locked"
  /\ mutex_' = Unlock(ReaderThread(r))
  /\ reader' = [reader EXCEPT ![r] =
       [@ EXCEPT !.pc = "ret", !.opt = find_if(users_, reader[r].pred)]]
  /\ users_' = find_if(users_, reader[r].pred)
                 \o SelectSeq(users_, LAMBDA u : ~Pred(reader[r].pred, u))
  /\ UNCHANGED <<next_id_, task, user_mutex_, future>>

\* line 173-178: the scan and the copy out, then the lock's scope ends
findUser(r) ==
  /\ reader[r].pc = "find_locked"
  /\ mutex_' = Unlock(ReaderThread(r))
  /\ reader' = [reader EXCEPT ![r] =
       [@ EXCEPT !.pc = "ret", !.opt = find_if(users_, reader[r].pred)]]
  /\ UNCHANGED <<users_, next_id_, task, user_mutex_, future>>

\* line 184-188: the copy of the matches, then the lock's scope ends.  Inside
\* getStatistics the result is `active` (line 272), then `admins` (line 273).
filterUsers(r) ==
  /\ reader[r].pc = "filter_locked"
  /\ mutex_' = Unlock(ReaderThread(r))
  /\ LET result == copy_if(users_, reader[r].pred) IN
     reader' = [reader EXCEPT ![r] =
       CASE reader[r].op = "getStatistics" /\ reader[r].step = 1 ->
              [@ EXCEPT !.pc = "filter", !.step = 2, !.active = result,
                        !.pred = ByRolePred("ADMIN")]
         [] reader[r].op = "getStatistics" /\ reader[r].step = 2 ->
              [@ EXCEPT !.pc = "size", !.step = 3, !.admins = result,
                        !.pred = NoPred]
         [] OTHER -> [@ EXCEPT !.pc = "ret", !.vec = result]]
  /\ UNCHANGED <<users_, next_id_, task, user_mutex_, future>>

\* total_users taken from active.size() in place of users_.size()
sizeLocked_TotalFromActive(r) ==
  /\ reader[r].pc = "size_locked"
  /\ mutex_' = Unlock(ReaderThread(r))
  /\ reader' = [reader EXCEPT ![r] =
       IF reader[r].step = 3
       THEN [@ EXCEPT !.pc = "size", !.step = 4, !.total = Len(reader[r].active)]
       ELSE [@ EXCEPT !.pc = "ret", !.avg = <<Len(users_), AVG_DIVISOR>>]]
  /\ UNCHANGED <<users_, next_id_, task, user_mutex_, future>>

\* line 200: users_.size(), then the lock's scope ends.  size() is called by
\* getStatistics alone: its first call initialises total_users (line 276) and
\* its second one is the numerator of avg_users_per_day (line 279), a double
\* kept here as the pair <<numerator, divisor>>.
sizeLocked(r) ==
  /\ reader[r].pc = "size_locked"
  /\ mutex_' = Unlock(ReaderThread(r))
  /\ LET result == Len(users_) IN
     reader' = [reader EXCEPT ![r] =
       IF reader[r].step = 3
       THEN [@ EXCEPT !.pc = "size", !.step = 4, !.total = result]
       ELSE [@ EXCEPT !.pc = "ret", !.avg = <<result, AVG_DIVISOR>>]]
  /\ UNCHANGED <<users_, next_id_, task, user_mutex_, future>>

\* line 205: users_.empty(), then the lock's scope ends
emptyLocked(r) ==
  /\ reader[r].pc = "empty_locked"
  /\ mutex_' = Unlock(ReaderThread(r))
  /\ reader' = [reader EXCEPT ![r] = [@ EXCEPT !.pc = "ret", !.b = (users_ = <<>>)]]
  /\ UNCHANGED <<users_, next_id_, task, user_mutex_, future>>

\* The caller drops the result and is free to call again.
ReaderReturn(r) ==
  /\ reader[r].pc = "ret"
  /\ reader' = [reader EXCEPT ![r] = ReaderInit]
  /\ UNCHANGED <<users_, mutex_, next_id_, task, user_mutex_, future>>

\* The steps of a call of one of the manager's queries.
ReaderStep(r) ==
  \/ SharedLock(r)
  \/ findUser(r)
  \/ filterUsers(r)
  \/ sizeLocked(r)
  \/ ReaderReturn(r)

\* The worker tasks and the calls that launch them.
Create ==
  \/ \E t \in Tasks : createUserAsync(t)
  \/ \E t \in Tasks : TaskStep(t)

\* The program as main runs it: the workers, and main's thread calling the
\* queries of the manager.
Next ==
  \/ Create
  \/ \E id \in IdArgs : findUserById(MainThread, id)
  \/ \E role \in UserRole : getUsersByRole(MainThread, role)
  \/ getActiveUsers(MainThread)
  \/ getStatistics(MainThread)
  \/ ReaderStep(MainThread)

Spec == Init /\ [][Next]_vars

\* The store under several reader threads: the workers, and every reader
\* thread calling a read operation of the store, empty().  All four read
\* operations take the lock by the same std::shared_lock (SharedLock).
NextStore ==
  \/ Create
  \/ \E r \in Readers : empty(r)
  \/ \E r \in Readers : SharedLock(r)
  \/ \E r \in Readers : emptyLocked(r)
  \/ \E r \in Readers : ReaderReturn(r)

SpecStore == Init /\ [][NextStore]_vars

\* ------------------------------------------------------------ vocabulary
Issued == {t \in Tasks : task[t].pc # "none"}
\* fetch_add has run: the call has its id
Allocated(t) == task[t].pc \notin {"none", "sleep"}
\* addUser has returned: the record is in the store
Inserted(t) == task[t].pc \in {"print", "str", "return", "done", "threw_print"}
\* the lambda threw before users_.push_back took effect
FailedBeforeInsert(t) == task[t].pc \in {"threw_make", "threw_push"}
Resolved(t) == future[t].state \in {"value", "exception"}
Succeeded(t) == future[t].state = "value"
StoreIds == {users_[i].id : i \in 1..Len(users_)}

\* ---------------------------------------------------------------- claims
\* C1: once every issued createUserAsync call has resolved, the ids assigned
\* to the N calls are exactly 1..N, no two calls share one, each record a
\* handle yields carries its call's id, and when all N calls succeeded the ids
\* of the records in the store are exactly 1..N as well.
C1_IdsExactlyOneToN ==
  (Issued # {} /\ \A t \in Issued : Resolved(t)) =>
    /\ {task[t].id : t \in Issued} = 1..Cardinality(Issued)
    /\ \A t, u \in Issued : t # u => task[t].id # task[u].id
    /\ \A t \in Issued : Succeeded(t) => future[t].value[1].id = task[t].id
    /\ (\A t \in Issued : Succeeded(t)) =>
         /\ {future[t].value[1].id : t \in Issued} = 1..Cardinality(Issued)
         /\ StoreIds = 1..Cardinality(Issued)

\* Both calls have resolved with a record, and the call issued second got id 1.
C1_Witness ==
  /\ \A t \in Tasks : Succeeded(t)
  /\ task[NumTasks].id = 1

\* C2 as stated: whenever findUserById(id) scans the store, it returns a
\* record if and only if a call that was assigned that id has completed (its
\* handle has resolved with the record).
C2_FoundIffCompleted ==
  [][findUser(MainThread) =>
       ((reader'[MainThread].opt # <<>>) <=>
          \E t \in Tasks : Allocated(t) /\ task[t].id = reader[MainThread].pred.id
                           /\ Succeeded(t))]_vars

\* C2 as amended: whenever findUserById(id) scans the store, it returns a
\* record if and only if a call that was assigned that id has returned from
\* addUser; the record is the one that call constructed.  So the id of a call
\* that resolved with a record is found, an id never issued is not, and the
\* id of a call still in flight is found from its insert on, before its
\* handle resolves.
C2_FoundIffInserted ==
  /\ [][findUser(MainThread) =>
         /\ (reader'[MainThread].opt # <<>>) <=>
              \E t \in Tasks : Inserted(t) /\ task[t].id = reader[MainThread].pred.id
         /\ \A t \in Tasks :
              (Inserted(t) /\ task[t].id = reader[MainThread].pred.id) =>
                reader'[MainThread].opt =
                  <<User(task[t].id, userData[t].name, userData[t].email,
                         userData[t].role)>>]_vars
  /\ [](\A t \in Tasks : Succeeded(t) => Inserted(t))

\* findUserById has returned the record of a call whose handle is pending.
C2_Witness ==
  /\ reader[MainThread].pc = "ret"
  /\ reader[MainThread].op = "findUserById"
  /\ reader[MainThread].opt # <<>>
  /\ \E t \in Tasks : /\ task[t].id = reader[MainThread].pred.id
                      /\ Allocated(t)
                      /\ future[t].state = "pending"

\* ------------------------------------------------------------------ locks
Threads == {TaskThread(t) : t \in Tasks} \cup {ReaderThread(r) : r \in Readers}
\* The thread is inside addUser's critical section (line 161).
InInsert(t) == task[t].pc = "push"
\* The thread is inside the critical section of a read operation.
InRead(r) ==
  reader[r].pc \in {"find_locked", "filter_locked", "size_locked", "empty_locked"}
\* The locks a thread holds: the store's, and the mutex of a worker's *user.
HeldLocks(th) ==
  (IF th \in mutex_.unique \cup mutex_.shared THEN {<<"store", 0>>} ELSE {})
    \cup {<<"user", t>> : t \in {u \in Tasks : th \in user_mutex_[u]}}

\* C3: the store's lock is held exclusively exactly by the worker inside an
\* insert and shared exactly by the readers inside a read operation; while an
\* insert holds it, no other insert and no read operation holds it; readers
\* hold it together only while no insert does.
C3_SingleWriterMultiReader ==
  /\ mutex_.unique = {TaskThread(t) : t \in {u \in Tasks : InInsert(u)}}
  /\ mutex_.shared = {ReaderThread(r) : r \in {q \in Readers : InRead(q)}}
  /\ \A t \in Tasks : InInsert(t) =>
       /\ \A u \in Tasks \ {t} : ~InInsert(u)
       /\ \A r \in Readers : ~InRead(r)
  /\ Cardinality(mutex_.unique) <= 1
  /\ mutex_.unique # {} => mutex_.shared = {}

\* Two readers hold the lock at once while a worker waits to insert.
C3_Witness ==
  /\ Cardinality(mutex_.shared) >= 2
  /\ \E t \in Tasks : task[t].pc = "add"

\* C4: no thread ever holds two locks, and no thread inside an operation is
\* stuck: it can take its next step, or it waits for the store's lock, whose
\* holders can all take their next step (which releases the lock).
ThreadStep(th) ==
  IF th[1] = "task" THEN TaskStep(th[2]) ELSE ReaderStep(th[2])
Busy(th) ==
  IF th[1] = "task"
  THEN task[th[2]].pc \in {"sleep", "make", "add", "push", "print", "str", "return"}
  ELSE reader[th[2]].pc # "idle"
C4_OneLockNoDeadlock ==
  \A th \in Threads :
    /\ Cardinality(HeldLocks(th)) <= 1
    /\ Busy(th) =>
         \/ ENABLED ThreadStep(th)
         \/ /\ mutex_.unique \cup mutex_.shared # {}
            /\ \A h \in mutex_.unique \cup mutex_.shared :
                 h # th /\ ENABLED ThreadStep(h)

\* One worker holds its record's mutex, another holds the store's lock, and
\* main's query waits for the store's lock.
C4_Witness ==
  /\ \E t \in Tasks : user_mutex_[t] = {TaskThread(t)}
  /\ \E t \in Tasks : mutex_.unique = {TaskThread(t)}
  /\ reader[MainThread].pc \in {"find", "filter", "size"}

\* ------------------------------------------------------- records as built
\* The record call t constructs (line 233) from its id and its arguments.
Constructed(t) ==
  User(task[t].id, userData[t].name, userData[t].email, userData[t].role)
\* The records main's queries hold.
ReaderRecords(r) ==
  {reader[r].opt[i] : i \in 1..Len(reader[r].opt)}
    \cup {reader[r].vec[i] : i \in 1..Len(reader[r].vec)}
    \cup {reader[r].active[i] : i \in 1..Len(reader[r].active)}
    \cup {reader[r].admins[i] : i \in 1..Len(reader[r].admins)}

\* C5: every record of the store, and every record a read operation returned,
\* is entire: it is the record some call constructed, that call being past
\* its insert, and every call past its insert has exactly one record in the
\* store.  A call that threw before its insert has the exception in its
\* future and no record in the store, and the step in which it threw left the
\* store's sequence as it was.
C5_AtomicInsertIsolatedFailure ==
  /\ [](/\ \A i \in 1..Len(users_) :
             \E t \in Tasks : Inserted(t) /\ users_[i] = Constructed(t)
        /\ \A u \in ReaderRecords(MainThread) :
             \E t \in Tasks : Inserted(t) /\ u = Constructed(t)
        /\ \A t \in Tasks : Inserted(t) =>
             Cardinality({i \in 1..Len(users_) : users_[i].id = task[t].id}) = 1
        /\ \A t \in Tasks : FailedBeforeInsert(t) =>
             /\ future[t].state = "exception"
             /\ task[t].id \notin StoreIds)
  /\ [][\A t \in Tasks :
          (FailedBeforeInsert(t)' /\ ~FailedBeforeInsert(t)) => users_' = users_]_vars

\* One call threw inside push_back, and main found the record of another.
C5_Witness ==
  /\ \E t \in Tasks : task[t].pc = "threw_push" /\ future[t].state = "exception"
  /\ reader[MainThread].pc = "ret"
  /\ reader[MainThread].opt # <<>>

\* C6: when a handle has resolved with a record, the record has the name,
\* email and role passed to the call, status ACTIVE and the id the call
\* allocated, which is an id the counter has handed out; and findUserById of
\* that id on the store returns a record with the same field values.
C6_HandleYieldsStoredRecord ==
  \A t \in Tasks : Succeeded(t) =>
    LET u == future[t].value[1] IN
    /\ Len(future[t].value) = 1
    /\ u.name = userData[t].name
    /\ u.email = userData[t].email
    /\ u.role = userData[t].role
    /\ u.status = "ACTIVE"
    /\ u.id = task[t].id
    /\ u.id \in 1..(next_id_ - 1)
    /\ find_if(users_, ByIdPred(u.id)) = <<u>>

\* Both handles have resolved with a record; the second call's came first in
\* the store.
C6_Witness ==
  /\ \A t \in Tasks : Succeeded(t)
  /\ Len(users_) = NumTasks
  /\ users_[1].name = userData[NumTasks].name

\* C7: no two records of the store and no two records yielded by handles
\* share an id, and a call that allocates its id after another call did gets
\* a strictly greater id.
C7_UniqueIncreasingIds ==
  /\ [](/\ \A i, j \in 1..Len(users_) : i # j => users_[i].id # users_[j].id
        /\ \A t, u \in Tasks :
             (t # u /\ Succeeded(t) /\ Succeeded(u)) =>
               future[t].value[1].id # future[u].value[1].id)
  /\ [][\A t \in Tasks :
          (Allocated(t)' /\ ~Allocated(t)) =>
            \A u \in Tasks : Allocated(u) => task[u].id < task'[t].id]_vars

\* The call issued second allocated first, and both records are in the store
\* in the order opposite to their ids.
C7_Witness ==
  /\ \A t \in Tasks : Allocated(t)
  /\ task[NumTasks].id = 1
  /\ Len(users_) = 2
  /\ users_[1].id > users_[2].id

\* ------------------------------------------------------------- statistics
\* getStatistics has returned its UserStats to main.
StatsReturned ==
  reader[MainThread].pc = "ret" /\ reader[MainThread].op = "getStatistics"
\* The fields of the returned UserStats (line 275-280).
total_users == reader[MainThread].total
active_users == Len(reader[MainThread].active)
admin_users == Len(reader[MainThread].admins)
avg_users_per_day == reader[MainThread].avg
\* How many elements of s satisfy p.
Count(s, p) == Cardinality({i \in 1..Len(s) : Pred(p, s[i])})

\* C8: the total getStatistics reports is the store's size() at the moment
\* of its size() call for total_users, also when inserts run during
\* getStatistics: it is the length of users_ at that step; the store only
\* grows, so at the return the total is at most the store's size, and it is
\* the store's size when the store has not grown since getStatistics' first
\* read.
C8_TotalIsSizeWhenRead ==
  /\ [][(sizeLocked(MainThread) /\ reader[MainThread].step = 3) =>
          reader'[MainThread].total = Len(users_)]_vars
  /\ [](StatsReturned =>
          /\ total_users <= Len(users_)
          /\ active_users <= total_users
          /\ active_users = Len(users_) => total_users = Len(users_))

\* getStatistics returned a total taken after an insert that ran during the
\* call, and another insert has happened since.
C8_Witness ==
  /\ StatsReturned
  /\ active_users = 0
  /\ total_users = 1
  /\ Len(users_) = 2

\* C9: in a returned UserStats the numerator of avg_users_per_day is the
\* returned total, and active and admins count the active records and the
\* ADMIN records of the store contents total was taken from (the first
\* total_users records: the store only grows at its end).
C9_StatsFromOneSnapshot ==
  StatsReturned =>
    /\ avg_users_per_day = <<total_users, AVG_DIVISOR>>
    /\ total_users <= Len(users_)
    /\ active_users = Count(SubSeq(users_, 1, total_users), ActivePred)
    /\ admin_users = Count(SubSeq(users_, 1, total_users), ByRolePred("ADMIN"))

\* C10: the result of filterUsers (for getUsersByRole, getActiveUsers and the
\* two filters of getStatistics) holds exactly the stored records satisfying
\* the predicate, each once, in the order of their positions in the store:
\* its k-th element is the record at the k-th smallest matching position.
Matching(s, p) == {i \in 1..Len(s) : Pred(p, s[i])}
KthMatch(s, p, k) ==
  CHOOSE i \in Matching(s, p) :
    Cardinality({j \in Matching(s, p) : j <= i}) = k
FilterResult(r) ==
  IF reader[r].op = "getStatistics"
  THEN IF reader[r].step = 2 THEN reader[r].active ELSE reader[r].admins
  ELSE reader[r].vec
C10_FilterKeepsInsertionOrder ==
  [][filterUsers(MainThread) =>
       LET res == FilterResult(MainThread)'
           p == reader[MainThread].pred IN
       /\ Len(res) = Cardinality(Matching(users_, p))
       /\ \A k \in 1..Len(res) : res[k] = users_[KthMatch(users_, p, k)]]_vars

\* getActiveUsers returned two records, in the store's order, which is not
\* the order of their ids.
C10_Witness ==
  /\ reader[MainThread].pc = "ret"
  /\ reader[MainThread].op = "getActiveUsers"
  /\ Len(reader[MainThread].vec) = 2
  /\ reader[MainThread].vec = users_
  /\ reader[MainThread].vec[1].id > reader[MainThread].vec[2].id

\* ------------------------------------------------- the store's findUser
\* UserCollection::findUser is public and takes any predicate: here main's
\* thread calls it with the predicates of the manager's lambdas, among them a
\* role and the status, which several records satisfy, and an id that no
\* call is ever given.
FindPreds ==
  {ByRolePred(role) : role \in UserRole} \cup {ActivePred}
    \cup {ByIdPred(id) : id \in IdArgs \cup {999}}

findUserWith(r, pred) == Call(r, "findUser", "find", pred)

NextFind ==
  \/ Create
  \/ \E pred \in FindPreds : findUserWith(MainThread, pred)
  \/ SharedLock(MainThread)
  \/ findUser(MainThread)
  \/ ReaderReturn(MainThread)

SpecFind == Init /\ [][NextFind]_vars

\* C11: findUser returns the stored record at the smallest position whose
\* record satisfies the predicate (the earliest inserted match), and
\* std::nullopt when no stored record satisfies it; on an empty store every
\* call, findUserById(999) among them, returns std::nullopt.
C11_FirstMatchOrEmpty ==
  [][findUser(MainThread) =>
       LET p == reader[MainThread].pred
           res == reader[MainThread].opt' IN
       /\ (users_ = <<>>) => (res = <<>>)
       /\ (Matching(users_, p) = {}) <=> (res = <<>>)
       /\ Matching(users_, p) # {} =>
            /\ Len(res) = 1
            /\ \E i \in Matching(users_, p) :
                 /\ \A j \in Matching(users_, p) : i <= j
                 /\ res[1] = users_[i]]_vars

\* findUser by status returned the first of two stored active records, which
\* is the one inserted first and not the one with the lower id.
C11_Witness ==
  /\ reader[MainThread].pc = "ret"
  /\ reader[MainThread].op = "findUser"
  /\ reader[MainThread].pred = ActivePred
  /\ Len(users_) = 2
  /\ users_[1].id > users_[2].id
  /\ isActive(users_[2])
  /\ reader[MainThread].opt = <<users_[1]>>

\* C12: the queries are repeatable and have no effect on the store: every
\* step of a query of main's thread leaves users_ and next_id_ as they were,
\* the scan releases the lock it took, and the result of findUser or
\* filterUsers is what the same scan gives on the store the step leaves
\* behind, so the same call made again before any insert returns the same.
C12_ReadsRepeatable ==
  [][reader'[MainThread] # reader[MainThread] =>
       LET p == reader[MainThread].pred IN
       /\ users_' = users_
       /\ next_id_' = next_id_
       /\ findUser(MainThread) =>
            /\ reader'[MainThread].opt = find_if(users_', p)
            /\ ReaderThread(MainThread) \notin mutex_'.shared
       /\ filterUsers(MainThread) =>
            /\ FilterResult(MainThread)' = copy_if(users_', p)
            /\ ReaderThread(MainThread) \notin mutex_'.shared]_vars

\* findUserById returned the record stored second: a lookup that had
\* something to find behind another record, with the store as it was.
C12_Witness ==
  /\ reader[MainThread].pc = "ret"
  /\ reader[MainThread].op = "findUserById"
  /\ Len(users_) = 2
  /\ reader[MainThread].opt = <<users_[2]>>
  /\ next_id_ = 3

\* ------------------------------------------- callers and their own records
\* line 333-339: future.get() moves the unique_ptr out of the shared state
\* into the caller's createdUsers, or rethrows the stored exception into the
\* caller's catch.  The record stays in its slot, now as the caller's own.
FutureGet(t) ==
  /\ Resolved(t)
  /\ future' = [future EXCEPT ![t] =
       [@ EXCEPT !.state = IF future[t].state = "value"
                           THEN "retrieved" ELSE "caught"]]
  /\ UNCHANGED <<users_, mutex_, next_id_, task, user_mutex_, reader>>

\* line 102-115: the three setters, each under the record's own mutex
setName(u, name) == [u EXCEPT !.name = name]
setEmail(u, email) == [u EXCEPT !.email = email]
setStatus(u, status) == [u EXCEPT !.status = status]

\* The setter calls a caller makes on a record it holds.
SetterCalls ==
  {[fn |-> "setName", arg |-> "Mallory"],
   [fn |-> "setEmail", arg |-> "mallory@example.com"]}
    \cup {[fn |-> "setStatus", arg |-> status] : status \in UserStatus}

Set(u, c) ==
  CASE c.fn = "setName" -> setName(u, c.arg)
    [] c.fn = "setEmail" -> setEmail(u, c.arg)
    [] OTHER -> setStatus(u, c.arg)

\* a handle that refers to the element of users_ in place of the caller's
\* own record: the setter writes to the store
setOnCreated_IntoStore(t, c) ==
  /\ future[t].state = "retrieved"
  /\ future' = [future EXCEPT ![t] = [@ EXCEPT !.value = <<Set(@[1], c)>>]]
  /\ users_' = [i \in 1..Len(users_) |->
                 IF users_[i].id = future[t].value[1].id
                 THEN Set(users_[i], c) ELSE users_[i]]
  /\ UNCHANGED <<mutex_, next_id_, task, user_mutex_, reader>>

\* A setter called on a record got from a handle (*createdUsers[i]).
setOnCreated(t, c) ==
  /\ future[t].state = "retrieved"
  /\ future' = [future EXCEPT ![t] = [@ EXCEPT !.value = <<Set(@[1], c)>>]]
  /\ UNCHANGED <<users_, mutex_, next_id_, task, user_mutex_, reader>>

\* A setter called on the record findUserById returned (*user, line 352).
setOnFound(r, c) ==
  /\ reader[r].pc = "ret"
  /\ reader[r].opt # <<>>
  /\ reader' = [reader EXCEPT ![r] = [@ EXCEPT !.opt = <<Set(@[1], c)>>]]
  /\ UNCHANGED <<users_, mutex_, next_id_, task, user_mutex_, future>>

\* A setter called on an element of the vector a filter returned.
setOnFiltered(r, k, c) ==
  /\ reader[r].pc = "ret"
  /\ k \in 1..Len(reader[r].vec)
  /\ reader' = [reader EXCEPT ![r] = [@ EXCEPT !.vec[k] = Set(@, c)]]
  /\ UNCHANGED <<users_, mutex_, next_id_, task, user_mutex_, future>>

\* The records a caller holds that differ from what the call constructed.
Changed ==
  {<<"created", t>> : t \in {t \in Tasks :
      future[t].state = "retrieved" /\ future[t].value # <<Constructed(t)>>}}
    \cup {<<"found", 0>> : x \in {i \in 1..Len(reader[MainThread].opt) :
      \A t \in Tasks : reader[MainThread].opt[i] # Constructed(t)}}
    \cup {<<"filtered", k>> : k \in {i \in 1..Len(reader[MainThread].vec) :
      \A t \in Tasks : reader[MainThread].vec[i] # Constructed(t)}}

\* main's order (line 326-353): every call is issued, then the futures are
\* collected in the order of the calls, then come the queries; here the
\* caller also calls setters on one of the records it holds at a time.
Collected(t) == future[t].state \in {"retrieved", "caught"}
AllCollected == \A t \in Tasks : Collected(t)

NextCopies ==
  \/ Create
  \/ \E t \in Tasks :
       /\ Issued = Tasks
       /\ \A u \in Tasks : u < t => Collected(u)
       /\ FutureGet(t)
  \/ \E t \in Tasks, c \in SetterCalls :
       Changed \subseteq {<<"created", t>>} /\ setOnCreated(t, c)
  \/ /\ AllCollected
     /\ \/ \E id \in IdArgs : findUserById(MainThread, id)
        \/ getActiveUsers(MainThread)
        \/ getStatistics(MainThread)
  \/ ReaderStep(MainThread)
  \/ \E c \in SetterCalls :
       Changed \subseteq {<<"found", 0>>} /\ setOnFound(MainThread, c)
  \/ \E k \in Tasks, c \in SetterCalls :
       Changed \subseteq {<<"filtered", k>>} /\ setOnFiltered(MainThread, k, c)

SpecCopies == Init /\ [][NextCopies]_vars

\* What getStatistics reports of a store that no insert is changing.
StatsOf(s) ==
  [total |-> Len(s), active |-> Count(s, ActivePred),
   admins |-> Count(s, ByRolePred("ADMIN"))]

SetterStep ==
  \/ \E t \in Tasks, c \in SetterCalls : setOnCreated(t, c)
  \/ \E c \in SetterCalls : setOnFound(MainThread, c)
  \/ \E k \in Tasks, c \in SetterCalls : setOnFiltered(MainThread, k, c)

\* C13: the records handed to callers are copies.  A setter called on a
\* record got from a handle, from findUserById or from a filter leaves users_
\* as it was, and with it what findUserById, getActiveUsers and
\* getStatistics return; every stored record stays the record its call
\* constructed, and a query made while the caller holds a changed record
\* returns constructed records only.
C13_CallersHoldCopies ==
  /\ [](\A i \in 1..Len(users_) :
          \E t \in Tasks : Inserted(t) /\ users_[i] = Constructed(t))
  /\ [][SetterStep =>
          /\ users_' = users_
          /\ \A id \in IdArgs :
               find_if(users_', ByIdPred(id)) = find_if(users_, ByIdPred(id))
          /\ copy_if(users_', ActivePred) = copy_if(users_, ActivePred)
          /\ StatsOf(users_') = StatsOf(users_)]_vars
  /\ [][(Changed # {} /\ (findUser(MainThread) \/ filterUsers(MainThread))) =>
          /\ \A i \in 1..Len(reader'[MainThread].opt) :
               \E t \in Tasks : reader'[MainThread].opt[i] = Constructed(t)
          /\ \A i \in 1..Len(FilterResult(MainThread)') :
               \E t \in Tasks : FilterResult(MainThread)'[i] = Constructed(t)
          /\ filterUsers(MainThread) =>
               Len(FilterResult(MainThread)')
                 = Count(users_, reader[MainThread].pred)]_vars

\* The caller renamed and deactivated the record it got from a handle;
\* findUserById of its id then returned the record as the call constructed
\* it, which is the one in the store.
C13_Witness ==
  \E t \in Tasks :
    /\ future[t].state = "retrieved"
    /\ future[t].value[1].status = "INACTIVE"
    /\ future[t].value[1].name = "Mallory"
    /\ reader[MainThread].pc = "ret"
    /\ reader[MainThread].op = "findUserById"
    /\ reader[MainThread].opt = <<Constructed(t)>>
    /\ \E i \in 1..Len(users_) : users_[i] = Constructed(t)

\* ------------------------------------------------ the store's iterators
\* line 190-196: begin(), end(), cbegin() and cend() are public and take no
\* lock; they hand out iterators into users_.  A range-for over the store
\* calls begin() and end() (the range is the elements there at that moment,
\* their number kept in `total`) and then walks it.
begin(r) ==
  /\ reader[r].pc = "idle"
  /\ reader' = [reader EXCEPT ![r] =
       [ReaderInit EXCEPT !.pc = "iter", !.op = "begin", !.total = Len(users_)]]
  /\ UNCHANGED <<users_, mutex_, next_id_, task, user_mutex_, future>>

\* The walk from begin() to end(), without the lock.  When a push_back is
\* running, or one has run since begin(), the iterators may point into a
\* buffer that is being written or has been freed: the walk is undefined,
\* and yields the old range, the present contents or nothing at all.
traverse(r) ==
  /\ reader[r].pc = "iter"
  /\ LET range == SubSeq(users_, 1, reader[r].total)
         raced == (\E t \in Tasks : InInsert(t))
                    \/ Len(users_) # reader[r].total IN
     \E result \in (IF raced THEN {range, users_, <<>>} ELSE {range}) :
       reader' = [reader EXCEPT ![r] = [@ EXCEPT !.pc = "ret", !.vec = result]]
  /\ UNCHANGED <<users_, mutex_, next_id_, task, user_mutex_, future>>

NextIter ==
  \/ Create
  \/ begin(MainThread)
  \/ traverse(MainThread)
  \/ ReaderReturn(MainThread)

SpecIter == Init /\ [][NextIter]_vars

\* C14: a thread reaches users_ only while it holds the store's lock: a
\* reader that holds an iterator into users_ or is inside a scan holds the
\* lock shared, and no such reader exists while a task is inside push_back.
C14_AccessOnlyUnderLock ==
  \A r \in Readers :
    (InRead(r) \/ reader[r].pc = "iter") =>
      /\ ReaderThread(r) \in mutex_.shared
      /\ \A t \in Tasks : ~InInsert(t)

\* ------------------------------------------------- the scenario of two calls
\* A fresh manager, createUserAsync of rows 1 and 2 of userData (an ADMIN
\* named Alice, a USER named Bob) and no other call; once both futures are
\* ready with a record, getUsersByRole(ADMIN) and getStatistics().
ScenarioCalls == {1, 2}

NextScenario ==
  \/ \E t \in ScenarioCalls : createUserAsync(t)
  \/ \E t \in ScenarioCalls : TaskStep(t)
  \/ /\ \A t \in ScenarioCalls : Succeeded(t)
     /\ \/ getUsersByRole(MainThread, "ADMIN")
        \/ getStatistics(MainThread)
  \/ SharedLock(MainThread)
  \/ filterUsers(MainThread)
  \/ sizeLocked(MainThread)
  \/ ReaderReturn(MainThread)

SpecScenario == Init /\ [][NextScenario]_vars

\* C15: after the two calls for Alice (ADMIN) and Bob (USER) have both
\* completed on a fresh manager, getUsersByRole(ADMIN) returns exactly
\* Alice's record, and getStatistics returns total 2, active 2, admins 1 and
\* the average 2/30.0, in whichever order the tasks inserted.
C15_AliceAndBob ==
  reader[MainThread].pc = "ret" =>
    /\ reader[MainThread].op = "getUsersByRole" =>
         /\ reader[MainThread].vec = <<Constructed(1)>>
         /\ reader[MainThread].vec[1].name = "Alice Johnson"
         /\ reader[MainThread].vec[1].role = "ADMIN"
    /\ reader[MainThread].op = "getStatistics" =>
         /\ total_users = 2
         /\ active_users = 2
         /\ admin_users = 1
         /\ avg_users_per_day = <<2, AVG_DIVISOR>>

\* getStatistics has returned with Bob's record stored before Alice's.
C15_Witness ==
  /\ StatsReturned
  /\ Len(users_) = 2
  /\ users_[1].name = "Bob Smith"
  /\ users_[2].name = "Alice Johnson"

\* ------------------------------------------------------------ progress
\* The workers, the caller collecting the futures in any order, and main's
\* thread calling findUserById(1) (line 349) again and again meanwhile.
NextLive ==
  \/ Create
  \/ \E t \in Tasks : FutureGet(t)
  \/ findUserById(MainThread, 1)
  \/ SharedLock(MainThread)
  \/ findUser(MainThread)
  \/ ReaderReturn(MainThread)

\* Every thread that can take a step is scheduled: a worker task runs on
\* when its next step is possible, and so does a thread inside a query.
\* Nothing is said of who gets the store's lock when several want it:
\* std::shared_mutex promises no order.
SpecLive ==
  /\ Init
  /\ [][NextLive]_vars
  /\ \A t \in Tasks : WF_vars(TaskStep(t))
  /\ WF_vars(SharedLock(MainThread) \/ findUser(MainThread))

Pending(t) == future[t].state = "pending"
\* The calls whose future became ready with a record, collected or not.
Yielded(t) == future[t].state \in {"value", "retrieved"}

\* Once every issued call has resolved, and with a record, the store holds
\* as many records as there were calls.
AllYieldedThenSizeN ==
  (Issued # {} /\ \A t \in Issued : Yielded(t)) =>
    Len(users_) = Cardinality(Issued)

\* C16 as stated: with the worker tasks weakly fair, every issued call
\* resolves its future whatever queries run meanwhile and in whatever order
\* the futures are collected, and once all N futures of N successful calls
\* have resolved the store's size is N.
C16_ResolvesUnderWeakFairness ==
  /\ \A t \in Tasks : Pending(t) ~> ~Pending(t)
  /\ []AllYieldedThenSizeN

\* The task waits in addUser for the lock for ever although the lock is
\* free again and again: each time, a query takes it first.
StarvedAtLock(t) == []<>(task[t].pc = "add" /\ CanLockUnique)

\* C16, amended: with the worker tasks weakly fair, every issued call
\* resolves its future, in whatever order the futures are collected, unless
\* its task is starved of the store's lock by queries that go on for ever
\* (so: under strong fairness of the task's lock acquisition); and once all
\* N futures of N successful calls have resolved the store's size is N.
C16_ResolvesUnlessStarvedOfLock ==
  /\ \A t \in Tasks : StarvedAtLock(t) \/ (Pending(t) ~> ~Pending(t))
  /\ []AllYieldedThenSizeN

\* Every call has resolved with a record, the last call's future was
\* collected while the first one's was not, and the store holds one record
\* for each call.
C16_Witness ==
  /\ \A t \in Tasks : Yielded(t)
  /\ future[NumTasks].state = "retrieved"
  /\ future[1].state = "value"
  /\ Len(users_) = NumTasks

\* C17: addUser appends exactly one record at the end: the step that runs
\* push_back makes the store one longer, its last element is the record the
\* task passed (*user), and every earlier record is where and what it was.
C17_InsertAppendsOne ==
  [][\A t \in Tasks : AddUserPush(t) =>
       /\ Len(users_') = Len(users_) + 1
       /\ users_'[Len(users_')] = task[t].user[1]
       /\ \A i \in 1..Len(users_) : users_'[i] = users_[i]]_vars

\* Two inserts have run: the second call's record went in first and the
\* first call's record is the last element.
C17_Witness ==
  /\ Len(users_) = 2
  /\ Inserted(1) /\ Inserted(2)
  /\ users_[1] = Constructed(2)
  /\ users_[2] = Constructed(1)

\* C18: the store only grows.  In every step users_ before the step is a
\* prefix of users_ after it, so its size never decreases and no record is
\* removed, replaced or moved; an id that findUserById finds is found in
\* every later state, with the same field values; and the record a
\* findUserById call returned is what a lookup of that id still finds.
C18_StoreOnlyGrows ==
  /\ [][/\ Len(users_') >= Len(users_)
         /\ SubSeq(users_', 1, Len(users_)) = users_
         /\ \A id \in IdArgs :
              find_if(users_, ByIdPred(id)) # <<>> =>
                find_if(users_', ByIdPred(id)) = find_if(users_, ByIdPred(id))]_vars
  /\ []((/\ reader[MainThread].pc = "ret"
          /\ reader[MainThread].op = "findUserById"
          /\ reader[MainThread].opt # <<>>) =>
           find_if(users_, reader[MainThread].pred) = reader[MainThread].opt)

\* findUserById returned the only record of the store, and a second record
\* has been inserted since, behind it.
C18_Witness ==
  /\ Len(users_) = 2
  /\ reader[MainThread].pc = "ret"
  /\ reader[MainThread].op = "findUserById"
  /\ reader[MainThread].opt = <<users_[1]>>
  /\ \E t \in Tasks : task[t].pc = "print" /\ users_[2] = Constructed(t)

\* C19: every record of the store has status ACTIVE in every reachable
\* state, so getActiveUsers selects every record it sees; the active count
\* getStatistics returns is at most its total, and equals it when the store
\* did not grow during the call (it still holds as many records as the
\* first read of the call saw).
C19_StoredRecordsActive ==
  /\ \A i \in 1..Len(users_) : users_[i].status = "ACTIVE"
  /\ StatsReturned =>
       /\ active_users <= total_users
       /\ Len(users_) = active_users => active_users = total_users

\* An insert ran between the first read of getStatistics and its size():
\* it returned one active user of a total of two.
C19_Witness ==
  /\ StatsReturned
  /\ active_users = 1
  /\ total_users = 2
  /\ \A i \in 1..Len(users_) : isActive(users_[i])

\* At most one issued call has not resolved: no two calls overlap.
NoOverlap == Cardinality({t \in Issued : ~Resolved(t)}) <= 1
Ascending == \A i, j \in 1..Len(users_) : i < j => users_[i].id < users_[j].id

\* C20: the id is allocated in one step and the record inserted in a later
\* one.  In every reachable state every id of the store is below next_id_
\* and the store holds at most as many records as ids have been allocated
\* (next_id_ - 1); and in a run in which no two calls ever overlap the
\* store is in strictly ascending order of id throughout.
C20_AllocationBeforeInsertion ==
  /\ [](/\ \A i \in 1..Len(users_) : users_[i].id < next_id_
        /\ Len(users_) <= next_id_ - 1)
  /\ ([]NoOverlap => []Ascending)

\* Two calls overlapped: both ids are allocated, and the record with the
\* higher id was inserted first, the other one's task still being at
\* addUser.
C20_Witness ==
  /\ next_id_ = 3
  /\ Len(users_) = 1
  /\ users_[1].id = 2
  /\ \E t \in Tasks : task[t].pc = "add" /\ task[t].id = 1
====
